---- MODULE Spec2Model ----
(***************************************************************************)
(* Model of the AirBnB data handler: the closure-based handler (loadData,  *)
(* filterListings, computeStatistics, computeHostRanking and the state the *)
(* four getters return) together with the scalar coercions parsePrice and  *)
(* parseNumber it is built on.                                             *)
(*                                                                         *)
(* Text is a sequence of one-character strings, so that the coercions can  *)
(* be computed character by character as parseFloat / parseInt do.         *)
(* A JavaScript number is a record [k, n, d]:                              *)
(*    k = "fin"   the rational n / d (d > 0, lowest terms)                 *)
(*    k = "inf"   +Infinity (n = 1) or -Infinity (n = -1)                  *)
(*    k = "nan"   NaN                                                      *)
(*    k = "undef" the value undefined (an omitted criteria bound)          *)
(* Finite values are exact rationals; the inputs are chosen so that every  *)
(* value whose second decimal is a rounding tie is a dyadic rational, on   *)
(* which IEEE doubles agree with exact arithmetic.  Negative zero is not   *)
(* represented (no input text of the model produces it).                   *)
(***************************************************************************)
EXTENDS Integers, Sequences, FiniteSets

(* Bounds of the model *)

\* longest table (number of data rows) a file holds
MaxLen == 2

\* longest table of the files the ranking is studied on
MaxRankLen == 3

(* Numbers *)

Abs(i) == IF i < 0 THEN -i ELSE i

RECURSIVE GCD(_, _)
GCD(a, b) == IF b = 0 THEN a ELSE GCD(b, a % b)

NaN == [k |-> "nan", n |-> 0, d |-> 1]
Undefined == [k |-> "undef", n |-> 0, d |-> 1]
Infinity(s) == [k |-> "inf", n |-> s, d |-> 1]

\* the rational n / d (d > 0) in lowest terms
Fin(n, d) ==
  LET g == GCD(Abs(n), d)
  IN  [k |-> "fin", n |-> n \div g, d |-> d \div g]

Num(i) == Fin(i, 1)

Sign(x) ==
  IF x.n > 0 THEN 1 ELSE IF x.n < 0 THEN -1 ELSE 0

\* JavaScript truthiness of a number or undefined: 0, NaN and undefined
\* are falsy
Truthy(x) ==
  \/ x.k = "inf"
  \/ x.k = "fin" /\ x.n # 0

\* x + y
Add(x, y) ==
  IF x.k = "nan" \/ y.k = "nan" \/ x.k = "undef" \/ y.k = "undef" THEN NaN
  ELSE IF x.k = "inf" /\ y.k = "inf"
       THEN IF x.n = y.n THEN x ELSE NaN
  ELSE IF x.k = "inf" THEN x
  ELSE IF y.k = "inf" THEN y
  ELSE Fin(x.n * y.d + y.n * x.d, x.d * y.d)

\* x / y
Div(x, y) ==
  IF x.k = "nan" \/ y.k = "nan" \/ x.k = "undef" \/ y.k = "undef" THEN NaN
  ELSE IF x.k = "inf" /\ y.k = "inf" THEN NaN
  ELSE IF x.k = "inf"
       THEN Infinity(IF y.n < 0 THEN -(x.n) ELSE x.n)
  ELSE IF y.k = "inf" THEN Num(0)
  ELSE IF y.n = 0
       THEN IF x.n = 0 THEN NaN ELSE Infinity(Sign(x))
  ELSE IF y.n > 0 THEN Fin(x.n * y.d, x.d * y.n)
  ELSE Fin(-(x.n * y.d), x.d * (-(y.n)))

\* x < y, false when either side is NaN (undefined converts to NaN)
Less(x, y) ==
  IF x.k \in {"nan", "undef"} \/ y.k \in {"nan", "undef"} THEN FALSE
  ELSE IF x.k = "inf" THEN x.n = -1 /\ ~(y.k = "inf" /\ y.n = -1)
  ELSE IF y.k = "inf" THEN y.n = 1
  ELSE x.n * y.d < y.n * x.d

\* x = y as numbers, false when either side is NaN
NumEq(x, y) ==
  /\ x.k \notin {"nan", "undef"}
  /\ y.k \notin {"nan", "undef"}
  /\ x = y

\* x >= y
Geq(x, y) == Less(y, x) \/ NumEq(x, y)

\* x <= y
Leq(x, y) == Less(x, y) \/ NumEq(x, y)

(* Text *)

Digits == {"0", "1", "2", "3", "4", "5", "6", "7", "8", "9"}

DigitVal(c) ==
  CASE c = "0" -> 0 [] c = "1" -> 1 [] c = "2" -> 2 [] c = "3" -> 3
    [] c = "4" -> 4 [] c = "5" -> 5 [] c = "6" -> 6 [] c = "7" -> 7
    [] c = "8" -> 8 [] c = "9" -> 9

DigitChar(i) == <<"0", "1", "2", "3", "4", "5", "6", "7", "8", "9">>[i + 1]

WhiteSpace == {" ", "\t", "\n", "\r"}

\* the decimal digits of a natural number
RECURSIVE NatToText(_)
NatToText(i) ==
  IF i < 10 THEN <<DigitChar(i)>>
  ELSE Append(NatToText(i \div 10), DigitChar(i % 10))

\* the value of a sequence of decimal digits
RECURSIVE DigitsValue(_)
DigitsValue(s) ==
  IF s = <<>> THEN 0
  ELSE 10 * DigitsValue(SubSeq(s, 1, Len(s) - 1)) + DigitVal(s[Len(s)])

RECURSIVE Pow10(_)
Pow10(e) == IF e = 0 THEN 1 ELSE 10 * Pow10(e - 1)

\* the longest prefix of s made of decimal digits
RECURSIVE DigitPrefix(_)
DigitPrefix(s) ==
  IF s = <<>> \/ s[1] \notin Digits THEN <<>>
  ELSE <<s[1]>> \o DigitPrefix(Tail(s))

\* s without its leading white space
RECURSIVE TrimStart(_)
TrimStart(s) ==
  IF s # <<>> /\ s[1] \in WhiteSpace THEN TrimStart(Tail(s)) ELSE s

\* does text s start with text p
StartsWith(s, p) == Len(s) >= Len(p) /\ SubSeq(s, 1, Len(p)) = p

\* s without its first n characters
Drop(s, n) == SubSeq(s, n + 1, Len(s))

(* JavaScript values read from a record: a string or undefined *)

Str(s) == [t |-> "string", s |-> s]
Undef == [t |-> "undefined", s |-> <<>>]

\* ToString of a string or undefined
ToStr(v) ==
  IF v.t = "string" THEN v.s
  ELSE <<"u", "n", "d", "e", "f", "i", "n", "e", "d">>

\* property access record[key]: undefined when the record has no such key
Get(record, key) ==
  IF key \in DOMAIN record THEN Str(record[key]) ELSE Undef

(* The global parseFloat on a text: white space, an optional sign, then
   Infinity or the longest decimal literal (digits, fraction, exponent);
   NaN when no such literal starts the text *)
parseFloat(text) ==
  LET t == TrimStart(text)
      neg == t # <<>> /\ t[1] = "-"
      signed == t # <<>> /\ t[1] \in {"-", "+"}
      body == IF signed THEN Tail(t) ELSE t
      ip == DigitPrefix(body)
      afterInt == Drop(body, Len(ip))
      hasDot == afterInt # <<>> /\ afterInt[1] = "."
      fp == IF hasDot THEN DigitPrefix(Tail(afterInt)) ELSE <<>>
      afterMant == IF hasDot THEN Drop(afterInt, 1 + Len(fp)) ELSE afterInt
      hasE == afterMant # <<>> /\ afterMant[1] \in {"e", "E"}
      afterE == IF hasE THEN Tail(afterMant) ELSE <<>>
      eNeg == afterE # <<>> /\ afterE[1] = "-"
      eSigned == afterE # <<>> /\ afterE[1] \in {"-", "+"}
      ep == DigitPrefix(IF eSigned THEN Tail(afterE) ELSE afterE)
      mant == DigitsValue(ip \o fp)
      e10 == (IF eNeg THEN -DigitsValue(ep) ELSE DigitsValue(ep)) - Len(fp)
      s == IF neg THEN -1 ELSE 1
  IN  IF StartsWith(body, <<"I", "n", "f", "i", "n", "i", "t", "y">>)
        THEN Infinity(s)
      ELSE IF ip = <<>> /\ fp = <<>> THEN NaN
      ELSE IF e10 >= 0 THEN Fin(s * mant * Pow10(e10), 1)
      ELSE Fin(s * mant, Pow10(-e10))

(* The global parseInt(value, 10): ToString, white space, an optional sign,
   then the longest run of decimal digits; NaN when there is no digit *)
parseInt(value) ==
  LET t == TrimStart(ToStr(value))
      neg == t # <<>> /\ t[1] = "-"
      signed == t # <<>> /\ t[1] \in {"-", "+"}
      ds == DigitPrefix(IF signed THEN Tail(t) ELSE t)
  IN  IF ds = <<>> THEN NaN
      ELSE Num(IF neg THEN -DigitsValue(ds) ELSE DigitsValue(ds))

isNaN(x) == x.k \in {"nan", "undef"}

\* priceStr.replace(/[^0-9.-]+/g, ''): every character that is not a digit,
\* '.' or '-' is removed
StripNonNumeric(s) ==
  SelectSeq(s, LAMBDA c : c \in Digits \cup {".", "-"})

\* Number.prototype.toFixed(2) for |x| < 10^21
toFixed2(x) ==
  IF x.k \in {"nan", "undef"} THEN <<"N", "a", "N">>
  ELSE IF x.k = "inf"
       THEN (IF x.n < 0 THEN <<"-">> ELSE <<>>)
              \o <<"I", "n", "f", "i", "n", "i", "t", "y">>
  ELSE LET a == Abs(x.n)
           \* the integer nearest to |x| * 100, the larger one on a tie
           h == (200 * a + x.d) \div (2 * x.d)
           ds == NatToText(h)
           padded == IF Len(ds) < 3
                       THEN SubSeq(<<"0", "0">>, 1, 3 - Len(ds)) \o ds
                       ELSE ds
           k == Len(padded)
       IN  (IF x.n < 0 THEN <<"-">> ELSE <<>>)
             \o SubSeq(padded, 1, k - 2) \o <<".">> \o SubSeq(padded, k - 1, k)

(* utils.js *)

\* parsePrice throws a TypeError when priceStr is undefined, which has no
\* replace method
parsePriceThrows(priceStr) == priceStr.t = "undefined"

\* parsePrice without the fallback: parseFloat(...) as it comes
parsePrice_NoFallback(priceStr) ==
  parseFloat(StripNonNumeric(priceStr.s))

\* parseFloat(priceStr.replace(/[^0-9.-]+/g, '')) || 0
parsePrice(priceStr) ==
  LET x == parseFloat(StripNonNumeric(priceStr.s))
  IN  IF Truthy(x) THEN x ELSE Num(0)

\* parseInt(str, 10), or defaultValue when that is NaN
parseNumber(str, defaultValue) ==
  LET num == parseInt(str)
  IN  IF isNaN(num) THEN defaultValue ELSE num

(* The handler's pure parts *)

CriteriaKeys ==
  {"minPrice", "maxPrice", "minRooms", "maxRooms",
   "minReviewScore", "maxReviewScore"}

\* the callback with bounds tested for presence (=== undefined) instead of
\* truthiness
FilterCallback_PresenceTest(listing, criteria) ==
  LET price == parsePrice(Get(listing, "price"))
      rooms == parseNumber(Get(listing, "bedrooms"), Num(1))
      reviewScore == parseNumber(Get(listing, "review_scores_rating"), Num(0))
  IN  /\ (criteria.minPrice = Undefined \/ Geq(price, criteria.minPrice))
      /\ (criteria.maxPrice = Undefined \/ Leq(price, criteria.maxPrice))
      /\ (criteria.minRooms = Undefined \/ Geq(rooms, criteria.minRooms))
      /\ (criteria.maxRooms = Undefined \/ Leq(rooms, criteria.maxRooms))
      /\ (criteria.minReviewScore = Undefined
            \/ Geq(reviewScore, criteria.minReviewScore))
      /\ (criteria.maxReviewScore = Undefined
            \/ Leq(reviewScore, criteria.maxReviewScore))

\* the callback of data.filter in filterListings
FilterCallback(listing, criteria) ==
  LET price == parsePrice(Get(listing, "price"))
      rooms == parseNumber(Get(listing, "bedrooms"), Num(1))
      reviewScore == parseNumber(Get(listing, "review_scores_rating"), Num(0))
  IN  /\ (~Truthy(criteria.minPrice) \/ Geq(price, criteria.minPrice))
      /\ (~Truthy(criteria.maxPrice) \/ Leq(price, criteria.maxPrice))
      /\ (~Truthy(criteria.minRooms) \/ Geq(rooms, criteria.minRooms))
      /\ (~Truthy(criteria.maxRooms) \/ Leq(rooms, criteria.maxRooms))
      /\ (~Truthy(criteria.minReviewScore)
            \/ Geq(reviewScore, criteria.minReviewScore))
      /\ (~Truthy(criteria.maxReviewScore)
            \/ Leq(reviewScore, criteria.maxReviewScore))

\* a callback that calls parsePrice(listing.price) throws on a listing
\* without a price key; Array.prototype.filter and reduce visit every element
PriceThrows(listings) ==
  \E i \in 1..Len(listings) : parsePriceThrows(Get(listings[i], "price"))

\* a filter that collects the retained listings back to front
RECURSIVE FilterResult_Reversed(_, _)
FilterResult_Reversed(listings, criteria) ==
  IF listings = <<>> THEN <<>>
  ELSE FilterResult_Reversed(Tail(listings), criteria)
         \o (IF FilterCallback(listings[1], criteria)
               THEN <<listings[1]>> ELSE <<>>)

\* data.filter(callback)
FilterResult(listings, criteria) ==
  SelectSeq(listings, LAMBDA listing : FilterCallback(listing, criteria))

\* filteredData.reduce((acc, listing) => acc + price / rooms, 0)
RECURSIVE PricePerRoomSum(_)
PricePerRoomSum(listings) ==
  IF listings = <<>> THEN Num(0)
  ELSE LET k == Len(listings)
           listing == listings[k]
           price == parsePrice(Get(listing, "price"))
           rooms == parseNumber(Get(listing, "bedrooms"), Num(1))
       IN  Add(PricePerRoomSum(SubSeq(listings, 1, k - 1)), Div(price, rooms))

\* statistics that report an average of 0.00 for no listings
StatisticsOf_ZeroForEmpty(listings) ==
  LET totalListings == Len(listings)
      pricePerRoom ==
        IF totalListings = 0 THEN Num(0)
        ELSE Div(PricePerRoomSum(listings), Num(totalListings))
  IN  [totalListings |-> totalListings,
       averagePricePerRoom |-> toFixed2(pricePerRoom)]

\* the object computeStatistics stores
StatisticsOf(listings) ==
  LET totalListings == Len(listings)
      pricePerRoom == Div(PricePerRoomSum(listings), Num(totalListings))
  IN  [totalListings |-> totalListings,
       averagePricePerRoom |-> toFixed2(pricePerRoom)]

(* computeHostRanking *)

\* the property names every plain object inherits from Object.prototype
\* (those the model's host ids can collide with); their values are truthy
ObjectPrototypeKeys ==
  {<<"c", "o", "n", "s", "t", "r", "u", "c", "t", "o", "r">>,
   <<"t", "o", "S", "t", "r", "i", "n", "g">>,
   <<"v", "a", "l", "u", "e", "O", "f">>}

\* the own entry of hostMap under a key, 0 when there is none;
\* hostMap is the sequence of its own entries in creation order
OwnIndex(hostMap, key) ==
  IF \E i \in 1..Len(hostMap) : hostMap[i].key = key
    THEN CHOOSE i \in 1..Len(hostMap) : hostMap[i].key = key
    ELSE 0

\* one step of the reduce: acc[hostId] is looked up through the prototype
\* chain, so an inherited property is found (truthy) and no own entry is
\* created; the increment then lands on the inherited object
HostMapStep(acc, listing) ==
  LET hostId == Get(listing, "host_id")
      key == ToStr(hostId)
      i == OwnIndex(acc, key)
  IN  IF i # 0
        THEN [acc EXCEPT ![i].listingsCount = @ + 1]
      ELSE IF key \in ObjectPrototypeKeys THEN acc
      ELSE Append(acc, [key |-> key, hostId |-> hostId,
                        hostName |-> Get(listing, "host_name"),
                        listingsCount |-> 1])

\* listings.reduce(step, {})
RECURSIVE HostMap(_)
HostMap(listings) ==
  IF listings = <<>> THEN <<>>
  ELSE HostMapStep(HostMap(SubSeq(listings, 1, Len(listings) - 1)),
                   listings[Len(listings)])

\* a < b for two texts of decimal digits of the same length
RECURSIVE DigitsLess(_, _)
DigitsLess(a, b) ==
  IF a = <<>> THEN FALSE
  ELSE IF a[1] # b[1] THEN DigitVal(a[1]) < DigitVal(b[1])
  ELSE DigitsLess(Tail(a), Tail(b))

\* a < b for two canonical decimal texts
IndexLess(a, b) ==
  \/ Len(a) < Len(b)
  \/ Len(a) = Len(b) /\ DigitsLess(a, b)

\* an array index: the canonical decimal text of an integer below 2^32 - 1
IsArrayIndex(key) ==
  /\ key # <<>>
  /\ \A i \in 1..Len(key) : key[i] \in Digits
  /\ (Len(key) = 1 \/ key[1] # "0")
  /\ IndexLess(key, <<"4", "2", "9", "4", "9", "6", "7", "2", "9", "5">>)

\* the entries sorted ascending by the integer their key denotes
RECURSIVE SortByIndex(_)
SortByIndex(entries) ==
  IF entries = <<>> THEN <<>>
  ELSE LET m == CHOOSE i \in 1..Len(entries) :
                  \A j \in 1..Len(entries) :
                    ~IndexLess(entries[j].key, entries[i].key)
       IN  <<entries[m]>>
             \o SortByIndex(SubSeq(entries, 1, m - 1)
                              \o SubSeq(entries, m + 1, Len(entries)))

\* Object.values(hostMap): own properties, array indices first in ascending
\* numeric order, then the other keys in creation order
ObjectValues(hostMap) ==
  LET ordered == SortByIndex(SelectSeq(hostMap, LAMBDA e : IsArrayIndex(e.key)))
                   \o SelectSeq(hostMap, LAMBDA e : ~IsArrayIndex(e.key))
  IN  [i \in 1..Len(ordered) |->
         [hostId |-> ordered[i].hostId, hostName |-> ordered[i].hostName,
          listingsCount |-> ordered[i].listingsCount]]

\* insert e behind every entry that does not sort after it
SortInsert(sorted, e) ==
  LET before == SelectSeq(sorted, LAMBDA a : a.listingsCount >= e.listingsCount)
      after == SelectSeq(sorted, LAMBDA a : a.listingsCount < e.listingsCount)
  IN  before \o <<e>> \o after

\* the sort with the comparator reversed (a.listingsCount - b.listingsCount)
RECURSIVE SortByCount_Ascending(_)
SortByCount_Ascending(entries) ==
  IF entries = <<>> THEN <<>>
  ELSE LET e == entries[Len(entries)]
           sorted == SortByCount_Ascending(SubSeq(entries, 1, Len(entries) - 1))
       IN  SelectSeq(sorted, LAMBDA a : a.listingsCount <= e.listingsCount)
             \o <<e>>
             \o SelectSeq(sorted, LAMBDA a : a.listingsCount > e.listingsCount)

\* entries.sort((a, b) => b.listingsCount - a.listingsCount); the sort is
\* stable
RECURSIVE SortByCount(_)
SortByCount(entries) ==
  IF entries = <<>> THEN <<>>
  ELSE SortInsert(SortByCount(SubSeq(entries, 1, Len(entries) - 1)),
                  entries[Len(entries)])

\* the array computeHostRanking stores
HostRankingOf(listings) == SortByCount(ObjectValues(HostMap(listings)))

(* Files *)

Header ==
  <<"id", "price", "bedrooms", "review_scores_rating", "host_id", "host_name">>

\* the header line of the file, cell by cell
HeaderCells ==
  <<<<"i", "d">>, <<"p", "r", "i", "c", "e">>,
    <<"b", "e", "d", "r", "o", "o", "m", "s">>,
    <<"r", "e", "v", "i", "e", "w", "_", "s", "c", "o", "r", "e", "s", "_", "r", "a", "t", "i", "n", "g">>,
    <<"h", "o", "s", "t", "_", "i", "d">>,
    <<"h", "o", "s", "t", "_", "n", "a", "m", "e">>>>

\* Scenario A, first record
R1 == <<<<"1">>, <<"$", "1", "0", "0">>, <<"2">>, <<"4", ".", "5">>, <<"h", "1">>, <<"A", "l">>>>

\* Scenario A, second record (same host under another name)
R2 == <<<<"2">>, <<"$", "2", "0", "0">>, <<"4">>, <<"3", ".", "0">>, <<"h", "1">>, <<"B", "e", "a">>>>

\* unparseable price, bedrooms and score
R3 == <<<<"3">>, <<"a", "b", "c">>, <<>>, <<>>, <<"1", "0">>, <<"B", "o">>>>

\* a studio (0 bedrooms), host id that is an array index
R4 == <<<<"4">>, <<"$", "1", ",", "2", "3", "4", ".", "5", "0">>, <<"0">>, <<"5">>, <<"9">>, <<"C", "y">>>>

\* a short row: the parser gives it no price key
R5 == <<<<"5">>>>

\* host id that names an inherited property
R6 == <<<<"6">>, <<"$", "1", "5", "0">>, <<"1">>, <<"4">>, <<"c", "o", "n", "s", "t", "r", "u", "c", "t", "o", "r">>, <<"D", "i">>>>

Catalog == {R1, R2, R3, R4, R5}

RECURSIVE SeqsUpTo(_, _)
SeqsUpTo(S, n) ==
  IF n = 0 THEN {<<>>}
  ELSE LET shorter == SeqsUpTo(S, n - 1)
       IN  shorter \cup {Append(q, x) : q \in {r \in shorter : Len(r) = n - 1},
                                       x \in S}

Tables == SeqsUpTo(Catalog, MaxLen)

PathCsv == <<"a", ".", "c", "s", "v">>
PathGz == <<"b", ".", "G", "Z">>
PathZip == <<"c", ".", "z", "i", "p">>
PathTxt == <<"d", ".", "t", "x", "t">>

\* the rows of the files that are not plain csv
SampleRows == <<R1, R4>>

\* files that cannot be read: "missing" is a path no file is at, "corrupt"
\* a file whose bytes the decoder of its extension rejects
FailingFiles ==
  {[path |-> p, rows |-> SampleRows, status |-> "missing"] :
     p \in {PathCsv, PathGz, PathZip, PathTxt}}
    \cup {[path |-> p, rows |-> SampleRows, status |-> "corrupt"] :
            p \in {PathCsv, PathGz, PathZip}}

Files ==
  {[path |-> PathCsv, rows |-> t, status |-> "ok"] : t \in Tables}
    \cup {[path |-> p, rows |-> SampleRows, status |-> "ok"] :
            p \in {PathGz, PathZip, PathTxt}}
    \cup FailingFiles

\* the files the ranking is studied on: longer tables of rows that all
\* carry a price, with hosts that share an id, whose id is an array index
\* or names an inherited property
RankingCatalog == {R1, R2, R3, R4, R6}

RankingFiles ==
  {[path |-> PathCsv, rows |-> t, status |-> "ok"] :
     t \in SeqsUpTo(RankingCatalog, MaxRankLen)}

(* loadData *)

UpperCase ==
  <<"A", "B", "C", "D", "E", "F", "G", "H", "I", "J", "K", "L", "M", "N", "O", "P", "Q", "R", "S", "T", "U", "V", "W", "X", "Y", "Z">>
LowerCase ==
  <<"a", "b", "c", "d", "e", "f", "g", "h", "i", "j", "k", "l", "m", "n", "o", "p", "q", "r", "s", "t", "u", "v", "w", "x", "y", "z">>

\* String.prototype.toLowerCase, character by character
ToLowerCase(s) ==
  [i \in 1..Len(s) |->
     IF \E j \in 1..26 : UpperCase[j] = s[i]
       THEN LowerCase[CHOOSE j \in 1..26 : UpperCase[j] = s[i]]
       ELSE s[i]]

\* s.split(sep): the pieces of s between the occurrences of the character sep
RECURSIVE Split(_, _)
Split(s, sep) ==
  IF \A i \in 1..Len(s) : s[i] # sep THEN <<s>>
  ELSE LET i == CHOOSE j \in 1..Len(s) :
                  s[j] = sep /\ \A h \in 1..(j - 1) : s[h] # sep
       IN  <<SubSeq(s, 1, i - 1)>> \o Split(Drop(s, i), sep)

\* filePath.split('.').pop().toLowerCase()
FileExtension(filePath) ==
  LET parts == Split(filePath, ".")
  IN  ToLowerCase(parts[Len(parts)])

IndexOf(seq, x) == CHOOSE i \in 1..Len(seq) : seq[i] = x

\* the record csv-parser emits for a row: one key per cell the row has
CsvRecord(row) ==
  LET n == IF Len(row) < Len(Header) THEN Len(row) ELSE Len(Header)
  IN  [key \in {Header[i] : i \in 1..n} |-> row[IndexOf(Header, key)]]

\* the rows csv-parser emits for a file (the header line names the keys)
CsvRecords(f) == [i \in 1..Len(f.rows) |-> CsvRecord(f.rows[i])]

\* a cell as it is written in the file: quoted when it holds a comma
CsvField(cell) ==
  IF \E i \in 1..Len(cell) : cell[i] = ","
    THEN <<"\"">> \o cell \o <<"\"">>
    ELSE cell

\* a line of the file
RECURSIVE CsvLine(_)
CsvLine(cells) ==
  IF cells = <<>> THEN <<>>
  ELSE IF Len(cells) = 1 THEN CsvField(cells[1])
  ELSE CsvField(cells[1]) \o <<",">> \o CsvLine(Tail(cells))

ColNames ==
  <<"col0", "col1", "col2", "col3", "col4", "col5", "col6", "col7">>

\* the zip branch: every line of the entry (the header line included) is
\* split at its commas; a line with more than one column becomes a record
\* keyed col0, col1, ...
ZipRecords(f) ==
  LET lines == <<HeaderCells>> \o f.rows
      cols(i) == Split(CsvLine(lines[i]), ",")
      kept == SelectSeq([i \in 1..Len(lines) |-> i],
                        LAMBDA i : Len(cols(i)) > 1)
  IN  [j \in 1..Len(kept) |->
         [key \in {ColNames[c] : c \in 1..Len(cols(kept[j]))} |->
            cols(kept[j])[IndexOf(ColNames, key)]]]

(* Criteria *)

PriceBounds == {Num(0), Num(100)}
RoomBounds == {Num(0), Num(2)}
ScoreBounds == {Num(0), Num(4)}

BoundValues(key) ==
  IF key \in {"minPrice", "maxPrice"} THEN PriceBounds
  ELSE IF key \in {"minRooms", "maxRooms"} THEN RoomBounds
  ELSE ScoreBounds

NoCriteria == [key \in CriteriaKeys |-> Undefined]

\* one bound given (zero or not), the others omitted
OneBoundCriteria ==
  {[NoCriteria EXCEPT ![key] = v] :
     key \in CriteriaKeys, v \in PriceBounds \cup RoomBounds \cup ScoreBounds}
    \ {c \in [CriteriaKeys -> {Undefined, Num(0), Num(100), Num(2), Num(4)}] :
         \E key \in CriteriaKeys :
           c[key] # Undefined /\ c[key] \notin BoundValues(key)}

\* both bounds of one derived value given (each zero or not)
RangeCriteria ==
  {[NoCriteria EXCEPT !.minPrice = a, !.maxPrice = b] :
     a \in PriceBounds, b \in PriceBounds}
    \cup {[NoCriteria EXCEPT !.minRooms = a, !.maxRooms = b] :
            a \in RoomBounds, b \in RoomBounds}
    \cup {[NoCriteria EXCEPT !.minReviewScore = a, !.maxReviewScore = b] :
            a \in ScoreBounds, b \in ScoreBounds}

\* all six bounds given and non-zero
FullCriteria ==
  [minPrice |-> Num(100), maxPrice |-> Num(100),
   minRooms |-> Num(2), maxRooms |-> Num(2),
   minReviewScore |-> Num(4), maxReviewScore |-> Num(4)]

CriteriaSet ==
  {NoCriteria, FullCriteria} \cup OneBoundCriteria \cup RangeCriteria

(* The handler *)

VARIABLES
  file,          \* the file at filePath
  data,          \* let data
  filteredData,  \* let filteredData
  statistics,    \* let statistics
  hostRanking,   \* let hostRanking
  lastCall,      \* the handler method called last
  criteria,      \* the argument of that call when it is filterListings
  err,           \* what that call threw, "none" when it returned
  promise,       \* the promise that call returned, "none" for a plain call
  exported,      \* the document at outputFilePath
  priceCall      \* a call of parsePrice on its own

vars ==
  <<file, data, filteredData, statistics, hostRanking, lastCall, criteria, err,
    promise, exported, priceCall>>

\* the object literal {}
EmptyObject == [key \in {} |-> 0]

\* no document has been written
NoDocument == [t |-> "none"]

\* parsePrice has not been called on its own
NoPriceCall == [priceStr |-> <<>>, returned |-> FALSE, result |-> Num(0)]

\* an 'error' event that no listener receives is thrown out of the event
\* loop and ends the process: nothing runs after it, and the promise of the
\* call that was waiting stays pending
Running == promise # "pending"

Init ==
  /\ file \in Files
  /\ data = <<>>
  /\ filteredData = <<>>
  /\ statistics = EmptyObject
  /\ hostRanking = <<>>
  /\ lastCall = "AirBnBDataHandler"
  /\ criteria = NoCriteria
  /\ err = "none"
  /\ promise = "none"
  /\ exported = NoDocument
  /\ priceCall = NoPriceCall

\* how a call of loadData ends: the value of data, the error and the promise
Settle(d, e, p) ==
  /\ data' = d
  /\ err' = e
  /\ promise' = p

\* fs.createReadStream(filePath).pipe(csv()) with the listeners of
\* 'data', 'end' and 'error' on the stream pipe returns, the parser: 'end'
\* assigns data and resolves, an 'error' of the parser rejects, and an
\* 'error' of the read stream, which pipe does not pass on, has no listener
LoadCsv(f) ==
  IF f.status = "missing" THEN Settle(data, "ENOENT", "pending")
  ELSE IF f.status = "corrupt" THEN Settle(data, "DecodeError", "rejected")
  ELSE Settle(CsvRecords(f), "none", "fulfilled")

\* the same with zlib.createGunzip() between the read stream and the
\* parser: an 'error' of the read stream or of the gunzip stream has no
\* listener
LoadGz(f) ==
  IF f.status = "missing" THEN Settle(data, "ENOENT", "pending")
  ELSE IF f.status = "corrupt" THEN Settle(data, "DecodeError", "pending")
  ELSE Settle(CsvRecords(f), "none", "fulfilled")

\* new AdmZip(filePath) and getEntries() throw inside the async function
LoadZip(f) ==
  IF f.status = "missing" THEN Settle(data, "ENOENT", "rejected")
  ELSE IF f.status = "corrupt" THEN Settle(data, "DecodeError", "rejected")
  ELSE Settle(ZipRecords(f), "none", "fulfilled")

\* loadData without the final else branch: a path of any other extension
\* is read as csv
loadData_NoExtensionCheck ==
  LET fileExtension == FileExtension(file.path)
  IN  /\ Running
      /\ lastCall' = "loadData"
      /\ criteria' = NoCriteria
      /\ IF fileExtension = <<"g", "z">>
           THEN LoadGz(file)
         ELSE IF fileExtension = <<"z", "i", "p">>
           THEN LoadZip(file)
         ELSE LoadCsv(file)
      /\ UNCHANGED <<file, filteredData, statistics, hostRanking, exported,
                     priceCall>>

\* await handler.loadData()
loadData ==
  LET fileExtension == FileExtension(file.path)
  IN  /\ Running
      /\ lastCall' = "loadData"
      /\ criteria' = NoCriteria
      /\ IF fileExtension = <<"c", "s", "v">>
           THEN LoadCsv(file)
         ELSE IF fileExtension = <<"g", "z">>
           THEN LoadGz(file)
         ELSE IF fileExtension = <<"z", "i", "p">>
           THEN LoadZip(file)
         ELSE Settle(data, "Error", "rejected")
      /\ UNCHANGED <<file, filteredData, statistics, hostRanking, exported,
                     priceCall>>

\* filterListings narrowing the previous filtered subset instead of
\* filtering the loaded data
filterListings_OnFiltered(c) ==
  /\ Running
  /\ lastCall' = "filterListings"
  /\ promise' = "none"
  /\ criteria' = c
  /\ IF PriceThrows(filteredData)
       THEN filteredData' = filteredData /\ err' = "TypeError"
       ELSE filteredData' = FilterResult(filteredData, c) /\ err' = "none"
  /\ UNCHANGED <<file, data, statistics, hostRanking, exported, priceCall>>

\* handler.filterListings(c)
filterListings(c) ==
  /\ Running
  /\ lastCall' = "filterListings"
  /\ promise' = "none"
  /\ criteria' = c
  /\ IF PriceThrows(data)
       THEN filteredData' = filteredData /\ err' = "TypeError"
       ELSE filteredData' = FilterResult(data, c) /\ err' = "none"
  /\ UNCHANGED <<file, data, statistics, hostRanking, exported, priceCall>>

\* computeStatistics aggregating the loaded data instead of the filtered
\* subset
computeStatistics_OnData ==
  /\ Running
  /\ lastCall' = "computeStatistics"
  /\ promise' = "none"
  /\ criteria' = NoCriteria
  /\ IF PriceThrows(data)
       THEN statistics' = statistics /\ err' = "TypeError"
       ELSE statistics' = StatisticsOf(data) /\ err' = "none"
  /\ UNCHANGED <<file, data, filteredData, hostRanking, exported, priceCall>>

\* handler.computeStatistics()
computeStatistics ==
  /\ Running
  /\ lastCall' = "computeStatistics"
  /\ promise' = "none"
  /\ criteria' = NoCriteria
  /\ IF PriceThrows(filteredData)
       THEN statistics' = statistics /\ err' = "TypeError"
       ELSE statistics' = StatisticsOf(filteredData) /\ err' = "none"
  /\ UNCHANGED <<file, data, filteredData, hostRanking, exported, priceCall>>

\* handler.computeHostRanking()
computeHostRanking ==
  /\ Running
  /\ lastCall' = "computeHostRanking"
  /\ promise' = "none"
  /\ criteria' = NoCriteria
  /\ hostRanking' = HostRankingOf(filteredData)
  /\ err' = "none"
  /\ UNCHANGED <<file, data, filteredData, statistics, exported, priceCall>>

Next ==
  \/ loadData
  \/ \E c \in CriteriaSet : filterListings(c)
  \/ computeStatistics
  \/ computeHostRanking

Spec == Init /\ [][Next]_vars

(* The same handler on the ranking files, filtered by price only *)

RankingCriteria ==
  {NoCriteria,
   [NoCriteria EXCEPT !.minPrice = Num(150)],
   [NoCriteria EXCEPT !.maxPrice = Num(150)]}

InitRanking ==
  /\ file \in RankingFiles
  /\ data = <<>>
  /\ filteredData = <<>>
  /\ statistics = EmptyObject
  /\ hostRanking = <<>>
  /\ lastCall = "AirBnBDataHandler"
  /\ criteria = NoCriteria
  /\ err = "none"
  /\ promise = "none"
  /\ exported = NoDocument
  /\ priceCall = NoPriceCall

NextRanking ==
  \/ loadData
  \/ \E c \in RankingCriteria : filterListings(c)
  \/ computeStatistics
  \/ computeHostRanking

SpecRanking == InitRanking /\ [][NextRanking]_vars

TypeOK ==
  /\ lastCall \in {"AirBnBDataHandler", "loadData", "filterListings",
                   "computeStatistics", "computeHostRanking",
                   "exportResults", "parsePrice"}
  /\ err \in {"none", "Error", "TypeError", "ENOENT", "DecodeError", "EACCES"}
  /\ promise \in {"none", "pending", "fulfilled", "rejected"}

(* Properties *)

\* the call that was made last returned normally
Returned(method) == lastCall = method /\ err = "none"

\* the derived value a bound applies to
DerivedValue(record, key) ==
  IF key \in {"minPrice", "maxPrice"}
    THEN parsePrice(Get(record, "price"))
  ELSE IF key \in {"minRooms", "maxRooms"}
    THEN parseNumber(Get(record, "bedrooms"), Num(1))
  ELSE parseNumber(Get(record, "review_scores_rating"), Num(0))

\* the bound is present and non-zero
BoundGiven(bound) == bound # Undefined /\ bound # Num(0)

\* the record satisfies every bound that is given
SatisfiesBounds(record, c) ==
  \A key \in CriteriaKeys :
    BoundGiven(c[key]) =>
      IF key \in {"minPrice", "minRooms", "minReviewScore"}
        THEN ~Less(DerivedValue(record, key), c[key])
        ELSE ~Less(c[key], DerivedValue(record, key))

RECURSIVE IsSubsequence(_, _)
IsSubsequence(sub, seq) ==
  IF sub = <<>> THEN TRUE
  ELSE IF seq = <<>> THEN FALSE
  ELSE IF sub[1] = seq[1] THEN IsSubsequence(Tail(sub), Tail(seq))
  ELSE IsSubsequence(sub, Tail(seq))

\* C2: the result of filterListings is a subsequence of the loaded data:
\* every retained record is an input record, none is duplicated, and the
\* retained records keep their relative order
C2_FilterSubsequence ==
  Returned("filterListings") => IsSubsequence(filteredData, data)

\* a filter that dropped the middle one of three different records
C2_Witness ==
  /\ Returned("filterListings")
  /\ Len(data) = 3
  /\ data[1] # data[3]
  /\ filteredData = <<data[1], data[3]>>
  /\ data[2] \notin {data[1], data[3]}

\* C3: filterListings, computeStatistics and computeHostRanking never throw,
\* whatever records are loaded
C3_NeverThrows ==
  lastCall \in {"filterListings", "computeStatistics", "computeHostRanking"}
    => err = "none"

\* the number of listings whose host_id gives the property key
CountOfKey(listings, key) ==
  Cardinality({i \in 1..Len(listings) :
                 ToStr(Get(listings[i], "host_id")) = key})

\* every entry of the ranking counts the listings of its host
RankingCounts(ranking, listings) ==
  \A i \in 1..Len(ranking) :
    ranking[i].listingsCount = CountOfKey(listings, ToStr(ranking[i].hostId))

\* C4, as stated: right after a filterListings call the statistics and the
\* ranking describe the current filtered subset, not a previous one
C4_FilterInvalidates ==
  Returned("filterListings") =>
    /\ statistics # EmptyObject
         => statistics.totalListings = Len(filteredData)
    /\ RankingCounts(hostRanking, filteredData)

\* C4, amended: filterListings leaves the statistics and the ranking as the
\* last computeStatistics and computeHostRanking calls left them; it is
\* computeStatistics that makes totalListings the length of the current
\* filtered subset, and computeHostRanking that makes the ranking count the
\* records of the current filtered subset
C4_Amended ==
  [][/\ lastCall' = "filterListings"
          => statistics' = statistics /\ hostRanking' = hostRanking
     /\ (lastCall' = "computeStatistics" /\ err' = "none")
          => statistics'.totalListings = Len(filteredData')
     /\ lastCall' = "computeHostRanking"
          => RankingCounts(hostRanking', filteredData')]_vars

\* right after a filterListings call the statistics count another number
\* of listings than the filtered subset holds
C4_Witness ==
  /\ Returned("filterListings")
  /\ statistics # EmptyObject
  /\ statistics.totalListings = 2
  /\ Len(filteredData) = 1
  /\ Len(hostRanking) = 2

\* the text is a decimal numeral with exactly two fractional digits
TwoFractionDigits(text) ==
  LET unsigned == IF text # <<>> /\ text[1] = "-" THEN Tail(text) ELSE text
      k == Len(unsigned)
  IN  /\ k >= 4
      /\ unsigned[k - 2] = "."
      /\ \A i \in (1..k) \ {k - 2} : unsigned[i] \in Digits

\* the number of hundredths a text with two fractional digits denotes
Hundredths(text) ==
  LET neg == text[1] = "-"
      unsigned == IF neg THEN Tail(text) ELSE text
      v == DigitsValue(SelectSeq(unsigned, LAMBDA c : c # "."))
  IN  IF neg THEN -v ELSE v

\* the arithmetic mean over the listings of price / rooms, each quotient
\* taken per record
RECURSIVE QuotientSum(_)
QuotientSum(listings) ==
  IF listings = <<>> THEN Num(0)
  ELSE Add(Div(DerivedValue(listings[1], "minPrice"),
               DerivedValue(listings[1], "minRooms")),
           QuotientSum(Tail(listings)))

MeanPricePerRoom(listings) == Div(QuotientSum(listings), Num(Len(listings)))

\* the text renders the number to the nearest hundredth
RendersToHundredths(text, x) ==
  /\ x.k = "fin"
  /\ TwoFractionDigits(text)
  /\ 2 * Abs(100 * x.n - Hundredths(text) * x.d) <= x.d

\* C5: for a non-empty filtered subset computeStatistics sets totalListings
\* to the number of records and averagePricePerRoom to the mean of the
\* per-record price / rooms, as a text with exactly two fractional digits
C5_Statistics ==
  (Returned("computeStatistics") /\ filteredData # <<>>) =>
    /\ statistics.totalListings = Len(filteredData)
    /\ RendersToHundredths(statistics.averagePricePerRoom,
                           MeanPricePerRoom(filteredData))

\* C6: on an empty filtered subset computeStatistics yields
\* {totalListings: 0, averagePricePerRoom: "NaN"} and computeHostRanking
\* yields the empty sequence, and neither throws
C6_EmptySubset ==
  /\ (lastCall = "computeStatistics" /\ filteredData = <<>>) =>
       /\ err = "none"
       /\ statistics = [totalListings |-> 0,
                        averagePricePerRoom |-> <<"N", "a", "N">>]
  /\ (lastCall = "computeHostRanking" /\ filteredData = <<>>) =>
       /\ err = "none"
       /\ hostRanking = <<>>

\* the statistics of a subset that a filter emptied: the ranking still
\* lists the hosts of the earlier, non-empty subset
C6_Witness ==
  /\ Returned("computeStatistics")
  /\ data # <<>>
  /\ filteredData = <<>>
  /\ hostRanking # <<>>
  /\ statistics.totalListings = 0

\* the position of the first listing whose host_id gives the property key
\* (0 when there is none)
FirstSeen(listings, key) ==
  IF CountOfKey(listings, key) = 0 THEN 0
  ELSE CHOOSE i \in 1..Len(listings) :
         /\ ToStr(Get(listings[i], "host_id")) = key
         /\ \A j \in 1..(i - 1) : ToStr(Get(listings[j], "host_id")) # key

\* C7: the ranking is sorted descending by listingsCount
C7_SortedDescending ==
  \A i \in 1..(Len(hostRanking) - 1) :
    hostRanking[i].listingsCount >= hostRanking[i + 1].listingsCount

\* a host with two listings ranks before a host with one listing whose
\* first listing comes earlier in the filtered subset
C7_Witness ==
  /\ Returned("computeHostRanking")
  /\ Len(hostRanking) = 2
  /\ hostRanking[1].listingsCount = 2
  /\ hostRanking[2].listingsCount = 1
  /\ FirstSeen(filteredData, ToStr(hostRanking[2].hostId)) = 1
  /\ FirstSeen(filteredData, ToStr(hostRanking[1].hostId)) = 2

\* C8: hosts with equal listingsCount appear in the order in which their
\* host_id was first met in the filtered subset, for every host_id
C8_TiesFirstSeen ==
  Returned("computeHostRanking") =>
    \A i, j \in 1..Len(hostRanking) :
      (i < j /\ hostRanking[i].listingsCount = hostRanking[j].listingsCount)
        => FirstSeen(filteredData, ToStr(hostRanking[i].hostId))
             < FirstSeen(filteredData, ToStr(hostRanking[j].hostId))

\* C9: the ranking has exactly one entry per distinct host_id of the
\* filtered subset, with that host_id, the host_name of the first record
\* that carries it and the number of records that carry it, so that the
\* counts add up to the length of the subset, for every host_id
C9_OneEntryPerHost ==
  Returned("computeHostRanking") =>
    /\ \A n \in 1..Len(filteredData) :
         Cardinality({i \in 1..Len(hostRanking) :
                        hostRanking[i].hostId
                          = Get(filteredData[n], "host_id")}) = 1
    /\ \A i \in 1..Len(hostRanking) :
         LET key == ToStr(hostRanking[i].hostId)
             first == FirstSeen(filteredData, key)
         IN  /\ first # 0
             /\ hostRanking[i].hostName
                  = Get(filteredData[first], "host_name")
             /\ hostRanking[i].listingsCount = CountOfKey(filteredData, key)

\* C10: a bound equal to zero behaves like an omitted bound: the filter
\* retains the same records with the field set to 0 and with it left out
C10_ZeroIsAbsent ==
  Returned("filterListings") =>
    \A key \in CriteriaKeys :
      criteria[key] = Num(0)
        => filteredData
             = FilterResult(data, [criteria EXCEPT ![key] = Undefined])

\* a filter with maxPrice 0 that retained a record with a positive price
C10_Witness ==
  /\ Returned("filterListings")
  /\ criteria["maxPrice"] = Num(0)
  /\ \E i \in 1..Len(filteredData) :
       Less(Num(0), DerivedValue(filteredData[i], "maxPrice"))

\* none of the six bounds is given
AllBoundsAbsent(c) == \A key \in CriteriaKeys : c[key] = Undefined

\* C11: filterListings with a criteria object in which all six bounds are
\* absent returns every record of the loaded data, unchanged and in the
\* original order: the call returns and the filtered subset is the data.
C11_IdentityFilter ==
  (lastCall = "filterListings" /\ AllBoundsAbsent(criteria))
    => (err = "none" /\ filteredData = data)

\* the file is read through the csv or the gz branch of loadData
StreamedPath(f) ==
  FileExtension(f.path) \in {<<"c", "s", "v">>, <<"g", "z">>}

\* C12: when loadData meets an ingestion failure in the csv or the gz path
\* (a missing file or a decode error), the promise it returned is rejected
\* with that error, it is neither fulfilled nor left pending, and nothing is
\* loaded: getData() keeps the value it had, here the initial empty array
\* since the file of a handler that fails never loaded.
C12_FailureRejects ==
  (lastCall = "loadData" /\ StreamedPath(file) /\ file.status # "ok")
    => (promise = "rejected" /\ err # "none" /\ data = <<>>)

\* the file extension is none of csv, gz and zip
UnsupportedPath(f) ==
  FileExtension(f.path) \notin {<<"c", "s", "v">>, <<"g", "z">>, <<"z", "i", "p">>}

RecordsAsCsv(f) == CsvRecords([f EXCEPT !.path = PathCsv])

\* C14: the three encodings yield the same Raw Records for the same table:
\* whatever the extension of the path, a load that succeeds leaves in data
\* the ordered sequence of records, keyed by the field names of the header,
\* that the .csv encoding of the table yields.
C14_SameRecords ==
  Returned("loadData") => data = RecordsAsCsv(file)

(* exportResults *)

\* A JSON document, as the tree of values its text denotes: strings,
\* numbers, arrays and objects whose members are in the order written
JNumber(n) == [t |-> "number", n |-> n]
JArray(items) == [t |-> "array", items |-> items]
JObject(members) == [t |-> "object", members |-> members]

\* JSON.stringify of an object: its own properties in order, a property
\* whose value is undefined left out
StringifyObject(properties) ==
  JObject(SelectSeq(properties, LAMBDA p : p.value.t # "undefined"))

\* the own keys of a loaded record, in the order the loader created them
OwnKeys(listing) ==
  SelectSeq(Header \o ColNames, LAMBDA key : key \in DOMAIN listing)

StringifyListing(listing) ==
  LET keys == OwnKeys(listing)
  IN  StringifyObject([i \in 1..Len(keys) |->
                         [key |-> keys[i], value |-> Str(listing[keys[i]])]])

StringifyStatistics(stats) ==
  IF stats = EmptyObject THEN StringifyObject(<<>>)
  ELSE StringifyObject(
         <<[key |-> "totalListings", value |-> JNumber(stats.totalListings)],
           [key |-> "averagePricePerRoom",
            value |-> Str(stats.averagePricePerRoom)]>>)

StringifyEntry(entry) ==
  StringifyObject(
    <<[key |-> "hostId", value |-> entry.hostId],
      [key |-> "hostName", value |-> entry.hostName],
      [key |-> "listingsCount", value |-> JNumber(entry.listingsCount)]>>)

\* the bundle with the statistics under the key stats
StringifyBundle_StatsKey(listings, stats, ranking) ==
  StringifyObject(
    <<[key |-> "filteredListings",
       value |-> JArray([i \in 1..Len(listings) |-> StringifyListing(listings[i])])],
      [key |-> "stats", value |-> StringifyStatistics(stats)],
      [key |-> "hostRanking",
       value |-> JArray([i \in 1..Len(ranking) |-> StringifyEntry(ranking[i])])]>>)

\* JSON.stringify({ filteredListings: getFilteredData(),
\*                  statistics: getStatistics(),
\*                  hostRanking: getHostRanking() }, null, 2)
StringifyBundle(listings, stats, ranking) ==
  StringifyObject(
    <<[key |-> "filteredListings",
       value |-> JArray([i \in 1..Len(listings) |-> StringifyListing(listings[i])])],
      [key |-> "statistics", value |-> StringifyStatistics(stats)],
      [key |-> "hostRanking",
       value |-> JArray([i \in 1..Len(ranking) |-> StringifyEntry(ranking[i])])]>>)

\* exportResults releasing the loaded records once the document is written
exportResults_ReleasesData(writable) ==
  /\ Running
  /\ lastCall' = "exportResults"
  /\ criteria' = NoCriteria
  /\ IF writable
       THEN /\ exported' = StringifyBundle(filteredData, statistics, hostRanking)
            /\ data' = <<>>
            /\ err' = "none"
            /\ promise' = "fulfilled"
       ELSE /\ exported' = exported
            /\ data' = data
            /\ err' = "EACCES"
            /\ promise' = "rejected"
  /\ UNCHANGED <<file, filteredData, statistics, hostRanking, priceCall>>

\* await handler.exportResults(outputFilePath); writable tells whether
\* fs.writeFile can write at outputFilePath
exportResults(writable) ==
  /\ Running
  /\ lastCall' = "exportResults"
  /\ criteria' = NoCriteria
  /\ IF writable
       THEN /\ exported' = StringifyBundle(filteredData, statistics, hostRanking)
            /\ err' = "none"
            /\ promise' = "fulfilled"
       ELSE /\ exported' = exported
            /\ err' = "EACCES"
            /\ promise' = "rejected"
  /\ UNCHANGED <<file, data, filteredData, statistics, hostRanking, priceCall>>

(* The handler with its export, on files of listings with and without a
   host *)

\* longest table of the files the export is studied on
MaxExportLen == 2

\* a row of two cells: a price, but no bedrooms, score or host
R7 == <<<<"7">>, <<"$", "8", "0">>>>

ExportCatalog == {R1, R2, R7}

ExportFiles ==
  {[path |-> PathCsv, rows |-> t, status |-> "ok"] :
     t \in SeqsUpTo(ExportCatalog, MaxExportLen)}

ExportCriteria ==
  {NoCriteria, [NoCriteria EXCEPT !.maxPrice = Num(100)]}

InitExport ==
  /\ file \in ExportFiles
  /\ data = <<>>
  /\ filteredData = <<>>
  /\ statistics = EmptyObject
  /\ hostRanking = <<>>
  /\ lastCall = "AirBnBDataHandler"
  /\ criteria = NoCriteria
  /\ err = "none"
  /\ promise = "none"
  /\ exported = NoDocument
  /\ priceCall = NoPriceCall

NextExport ==
  \/ loadData
  \/ \E c \in ExportCriteria : filterListings(c)
  \/ computeStatistics
  \/ computeHostRanking
  \/ \E writable \in BOOLEAN : exportResults(writable)

SpecExport == InitExport /\ [][NextExport]_vars

\* the keys of the members of a JSON object, in order
MemberKeys(object) ==
  [i \in 1..Len(object.members) |-> object.members[i].key]

\* the value of the member of a JSON object under a key
MemberValue(object, key) ==
  LET i == CHOOSE j \in 1..Len(object.members) : object.members[j].key = key
  IN  object.members[i].value

\* C15: exportResults serialises a bundle with exactly the three keys
\* filteredListings, statistics and hostRanking, whose values are the
\* current filtered subset, statistics and ranking of the handler; it
\* computes nothing and leaves data, filteredData, statistics and
\* hostRanking unchanged.
C15_ExportBundle ==
  [][lastCall' = "exportResults"
       => (/\ UNCHANGED <<data, filteredData, statistics, hostRanking>>
           /\ err' = "none"
                => (/\ MemberKeys(exported')
                         = <<"filteredListings", "statistics", "hostRanking">>
                    /\ MemberValue(exported', "filteredListings")
                         = JArray([i \in 1..Len(filteredData) |->
                                     StringifyListing(filteredData[i])])
                    /\ MemberValue(exported', "statistics")
                         = StringifyStatistics(statistics)
                    /\ MemberValue(exported', "hostRanking")
                         = JArray([i \in 1..Len(hostRanking) |->
                                     StringifyEntry(hostRanking[i])])))]_vars

\* a narrowed subset, its statistics and its ranking have been exported
C15_Witness ==
  /\ Returned("exportResults")
  /\ exported # NoDocument
  /\ filteredData # <<>>
  /\ filteredData # data
  /\ statistics # EmptyObject
  /\ hostRanking # <<>>

(* Reading an exported document back: JSON.parse of its text *)

\* the keys of a JSON object, as a set
KeySet(object) == {object.members[i].key : i \in 1..Len(object.members)}

\* a record of the filtered subset read back: every member is a text
ParseListing(object) ==
  [key \in KeySet(object) |-> MemberValue(object, key).s]

\* the statistics read back
ParseStatistics(object) ==
  [key \in KeySet(object) |->
     IF MemberValue(object, key).t = "number"
       THEN MemberValue(object, key).n
       ELSE MemberValue(object, key).s]

\* a ranking entry read back
ParseEntry(object) ==
  [key \in KeySet(object) |->
     IF MemberValue(object, key).t = "number"
       THEN MemberValue(object, key).n
       ELSE Str(MemberValue(object, key).s)]

\* JSON.parse of an exported document
ParseBundle(document) ==
  [key \in KeySet(document) |->
     LET value == MemberValue(document, key)
     IN  IF key = "filteredListings"
           THEN [i \in 1..Len(value.items) |-> ParseListing(value.items[i])]
         ELSE IF key = "hostRanking"
           THEN [i \in 1..Len(value.items) |-> ParseEntry(value.items[i])]
         ELSE ParseStatistics(value)]

\* C16: the export round-trips: serialising the bundle of the filtered
\* subset, the statistics and the ranking the handler holds and reading
\* the document back yields structurally identical data, with no field of
\* any listing, of the statistics or of any ranking entry lost.
C16_RoundTrip ==
  Returned("exportResults")
    => ParseBundle(exported)
         = [filteredListings |-> filteredData,
            statistics |-> statistics,
            hostRanking |-> hostRanking]

\* the methods that work on the loaded records
ReadingMethods ==
  {"filterListings", "computeStatistics", "computeHostRanking", "exportResults"}

\* C17: the loaded Raw Records are read-only: filterListings,
\* computeStatistics, computeHostRanking and exportResults, whether they
\* return or throw, leave getData() and every field of every record in it
\* unchanged.
C17_DataReadOnly ==
  [][lastCall' \in ReadingMethods => data' = data]_vars

\* all four methods have run on loaded records, the filter keeping only
\* some of them
C17_Witness ==
  /\ lastCall = "exportResults"
  /\ err = "none"
  /\ Len(data) = MaxExportLen
  /\ Len(filteredData) < Len(data)
  /\ statistics # EmptyObject
  /\ criteria = NoCriteria
  /\ \E i \in 1..Len(hostRanking) : hostRanking[i].listingsCount = Len(filteredData)

(* parsePrice on its own, on every short text of price characters *)

\* longest text parsePrice is called on
MaxTextLen == 3

\* a currency symbol, digits, the decimal point, the sign, a thousands
\* separator and a letter
PriceChars == {"$", "1", "0", ".", "-", ",", "a"}

PriceTexts == SeqsUpTo(PriceChars, MaxTextLen)

InitPrice ==
  /\ file = [path |-> PathCsv, rows |-> <<>>, status |-> "ok"]
  /\ data = <<>>
  /\ filteredData = <<>>
  /\ statistics = EmptyObject
  /\ hostRanking = <<>>
  /\ lastCall = "AirBnBDataHandler"
  /\ criteria = NoCriteria
  /\ err = "none"
  /\ promise = "none"
  /\ exported = NoDocument
  /\ priceCall \in {[NoPriceCall EXCEPT !.priceStr = text] : text \in PriceTexts}

\* parsePrice(priceStr)
callParsePrice ==
  /\ ~priceCall.returned
  /\ priceCall' = [priceCall EXCEPT !.returned = TRUE,
                                    !.result = parsePrice(Str(priceCall.priceStr))]
  /\ lastCall' = "parsePrice"
  /\ UNCHANGED <<file, data, filteredData, statistics, hostRanking, criteria,
                 err, promise, exported>>

NextPrice == callParsePrice

SpecPrice == InitPrice /\ [][NextPrice]_vars

\* a text that begins with a decimal literal: an optional minus sign, then
\* a digit, or the point and a digit
BeginsWithNumber(text) ==
  LET unsigned == IF text # <<>> /\ text[1] = "-" THEN Tail(text) ELSE text
  IN  /\ unsigned # <<>>
      /\ \/ unsigned[1] \in Digits
         \/ /\ unsigned[1] = "."
            /\ Len(unsigned) >= 2
            /\ unsigned[2] \in Digits

\* C18: parsePrice returns, for every input text, a number that is never
\* NaN; when the text left after the currency symbols and separators are
\* stripped does not parse as a number, the result is 0.
C18_NeverNaN ==
  priceCall.returned
    => /\ ~isNaN(priceCall.result)
       /\ ~BeginsWithNumber(StripNonNumeric(priceCall.priceStr))
            => priceCall.result = Num(0)

\* parsePrice has returned for a non-empty text whose stripped form is not
\* a number
C18_Witness ==
  /\ priceCall.returned
  /\ Len(priceCall.priceStr) = MaxTextLen
  /\ StripNonNumeric(priceCall.priceStr) # <<>>
  /\ ~BeginsWithNumber(StripNonNumeric(priceCall.priceStr))
  /\ priceCall.result = Num(0)

\* the divisor computeStatistics uses for a record
Rooms(listing) == parseNumber(Get(listing, "bedrooms"), Num(1))

\* C19: the rooms value computeStatistics divides by is never 0 (a bedrooms
\* text that does not parse becomes 1), so no record is divided by zero and
\* a non-empty filtered subset, whose prices are all finite, gets a finite
\* averagePricePerRoom: a decimal text with two fractional digits.
C19_RoomsNeverZero ==
  Returned("computeStatistics")
    => /\ \A i \in 1..Len(filteredData) : Rooms(filteredData[i]) # Num(0)
       /\ filteredData # <<>>
            => TwoFractionDigits(statistics.averagePricePerRoom)

(* The handler on a file that is rewritten between two loads; exportResults,
   which assigns none of the handler's variables, is left to SpecExport *)

\* longest table of the files that are rewritten
MaxReloadLen == 2

ReloadTables == SeqsUpTo({R1, R3}, MaxReloadLen)

ReloadFiles ==
  {[path |-> PathCsv, rows |-> t, status |-> "ok"] : t \in ReloadTables}

ReloadCriteria ==
  {NoCriteria, [NoCriteria EXCEPT !.minPrice = Num(100)]}

InitReload ==
  /\ file \in ReloadFiles
  /\ data = <<>>
  /\ filteredData = <<>>
  /\ statistics = EmptyObject
  /\ hostRanking = <<>>
  /\ lastCall = "AirBnBDataHandler"
  /\ criteria = NoCriteria
  /\ err = "none"
  /\ promise = "none"
  /\ exported = NoDocument
  /\ priceCall = NoPriceCall

\* another program writes other rows to the file at filePath; loadData
\* reads what is there when it is called
rewriteFile(rows) ==
  /\ Running
  /\ rows # file.rows
  /\ file' = [file EXCEPT !.rows = rows]
  /\ UNCHANGED <<data, filteredData, statistics, hostRanking, lastCall,
                 criteria, err, promise, exported, priceCall>>

NextReload ==
  \/ loadData
  \/ \E c \in ReloadCriteria : filterListings(c)
  \/ computeStatistics
  \/ computeHostRanking
  \/ \E rows \in ReloadTables : rewriteFile(rows)

SpecReload == InitReload /\ [][NextReload]_vars

\* C20: in every state the handler reaches through loadData, filterListings,
\* computeStatistics, computeHostRanking and exportResults calls, a second
\* loadData included, the filtered subset getFilteredData() returns is an
\* order-preserving subsequence of the loaded data getData() returns.
C20_FilteredWithinData == IsSubsequence(filteredData, data)

\* C20, amended: the filtered subset is the result of the latest returning
\* filterListings call, an order-preserving subsequence of the data loaded
\* at that call. Only such a call changes it, and it changes nothing in the
\* data; only loadData changes the data, and it leaves the filtered subset
\* as it was, so that after a load of other records the subset is no longer
\* within the data until filterListings is called again.
C20_Amended ==
  [][/\ Returned("filterListings")' =>
          (IsSubsequence(filteredData', data') /\ data' = data)
     /\ filteredData' # filteredData => Returned("filterListings")'
     /\ data' # data =>
          (Returned("loadData")' /\ filteredData' = filteredData)]_vars

\* a second loadData has read other records and the filtered subset still
\* holds records of the first
C20_Witness ==
  /\ Returned("loadData")
  /\ data # <<>>
  /\ filteredData # <<>>
  /\ ~IsSubsequence(filteredData, data)

(* The class AirBnBDataHandler of AirBnBDataHandler.js: this.data,
   this.filteredData, this.statistics and this.hostRanking are the
   variables data, filteredData, statistics and hostRanking *)

\* await handler.loadData(): fs.open rejects when no file is at filePath;
\* the file is read as csv whatever its extension, and an 'error' of the
\* parser rejects
classLoadData ==
  /\ Running
  /\ lastCall' = "loadData"
  /\ criteria' = NoCriteria
  /\ IF file.status = "missing" THEN Settle(data, "ENOENT", "rejected")
     ELSE IF file.status = "corrupt" THEN Settle(data, "DecodeError", "rejected")
     ELSE Settle(CsvRecords(file), "none", "fulfilled")
  /\ UNCHANGED <<file, filteredData, statistics, hostRanking, exported,
                 priceCall>>

\* handler.filterListings(c): this.filteredData = this.data.filter(...)
classFilterListings(c) ==
  /\ Running
  /\ lastCall' = "filterListings"
  /\ promise' = "none"
  /\ criteria' = c
  /\ IF PriceThrows(data)
       THEN filteredData' = filteredData /\ err' = "TypeError"
       ELSE filteredData' = FilterResult(data, c) /\ err' = "none"
  /\ UNCHANGED <<file, data, statistics, hostRanking, exported, priceCall>>

\* the class with computeStatistics reducing this.data
classComputeStatistics_OnData ==
  /\ Running
  /\ lastCall' = "computeStatistics"
  /\ promise' = "none"
  /\ criteria' = NoCriteria
  /\ IF PriceThrows(data)
       THEN statistics' = statistics /\ err' = "TypeError"
       ELSE statistics' = StatisticsOf(data) /\ err' = "none"
  /\ UNCHANGED <<file, data, filteredData, hostRanking, exported, priceCall>>

\* handler.computeStatistics(): this.filteredData.reduce(...) / totalListings
classComputeStatistics ==
  /\ Running
  /\ lastCall' = "computeStatistics"
  /\ promise' = "none"
  /\ criteria' = NoCriteria
  /\ IF PriceThrows(filteredData)
       THEN statistics' = statistics /\ err' = "TypeError"
       ELSE statistics' = StatisticsOf(filteredData) /\ err' = "none"
  /\ UNCHANGED <<file, data, filteredData, hostRanking, exported, priceCall>>

\* handler.computeHostRanking()
classComputeHostRanking ==
  /\ Running
  /\ lastCall' = "computeHostRanking"
  /\ promise' = "none"
  /\ criteria' = NoCriteria
  /\ hostRanking' = HostRankingOf(filteredData)
  /\ err' = "none"
  /\ UNCHANGED <<file, data, filteredData, statistics, exported, priceCall>>

\* the criteria the two handlers are compared on: none, all six bounds,
\* and one bound on each derived field
PipelineCriteria ==
  {NoCriteria, FullCriteria,
   [NoCriteria EXCEPT !.maxPrice = Num(100)],
   [NoCriteria EXCEPT !.minRooms = Num(2)],
   [NoCriteria EXCEPT !.maxReviewScore = Num(4)]}

\* csv files, readable or not
ClassFiles ==
  {f \in Files : FileExtension(f.path) = <<"c", "s", "v">>}

InitClass ==
  /\ file \in ClassFiles
  /\ data = <<>>
  /\ filteredData = <<>>
  /\ statistics = EmptyObject
  /\ hostRanking = <<>>
  /\ lastCall = "AirBnBDataHandler"
  /\ criteria = NoCriteria
  /\ err = "none"
  /\ promise = "none"
  /\ exported = NoDocument
  /\ priceCall = NoPriceCall

NextClass ==
  \/ classLoadData
  \/ \E c \in PipelineCriteria : classFilterListings(c)
  \/ classComputeStatistics
  \/ classComputeHostRanking

SpecClass == InitClass /\ [][NextClass]_vars

\* C21: on the core pipeline the class handler does what the closure
\* handler does: from the same loaded records and the same earlier calls,
\* every filterListings, computeStatistics and computeHostRanking step of
\* the class is the step the closure handler takes on that call, leaving
\* equal values in getData, getFilteredData, getStatistics and
\* getHostRanking and returning its handler (or throwing) alike.
C21_ClassAsClosure ==
  [][\/ lastCall' = "loadData"
     \/ \E c \in PipelineCriteria : filterListings(c)
     \/ computeStatistics
     \/ computeHostRanking]_vars

\* the class handler has filtered, aggregated and ranked loaded records
\* and then filtered again
C21_Witness ==
  /\ Returned("filterListings")
  /\ Len(data) = MaxLen
  /\ Len(filteredData) = 1
  /\ statistics # EmptyObject
  /\ statistics.totalListings = MaxLen
  /\ Len(hostRanking) >= 1

(* The functional module (part_004) as its CLI (part_001) runs it: the
   constants listings, filteredListings, stats and hostRanking of main are
   the variables data, filteredData, statistics and hostRanking *)

\* parseFloat(listing.price.replace(/[^0-9.-]+/g, ''))
functionalPrice(listing) ==
  parseFloat(StripNonNumeric(Get(listing, "price").s))

\* the callback of listings.filter in the functional filterListings
functionalFilterCallback(listing, c) ==
  LET price == functionalPrice(listing)
      rooms == parseInt(Get(listing, "bedrooms"))
      reviewScore == parseFloat(ToStr(Get(listing, "review_scores_rating")))
  IN  /\ (~Truthy(c.minPrice) \/ Geq(price, c.minPrice))
      /\ (~Truthy(c.maxPrice) \/ Leq(price, c.maxPrice))
      /\ (~Truthy(c.minRooms) \/ Geq(rooms, c.minRooms))
      /\ (~Truthy(c.maxRooms) \/ Leq(rooms, c.maxRooms))
      /\ (~Truthy(c.minReviewScore)
            \/ Geq(reviewScore, c.minReviewScore))
      /\ (~Truthy(c.maxReviewScore)
            \/ Leq(reviewScore, c.maxReviewScore))

\* listings.filter(callback)
functionalFilterResult(listings, c) ==
  SelectSeq(listings, LAMBDA listing : functionalFilterCallback(listing, c))

\* listings.reduce((acc, listing) => acc + price / rooms, 0) with
\* rooms = parseInt(listing.bedrooms, 10) || 1
RECURSIVE functionalPricePerRoomSum(_)
functionalPricePerRoomSum(listings) ==
  IF listings = <<>> THEN Num(0)
  ELSE LET k == Len(listings)
           listing == listings[k]
           price == functionalPrice(listing)
           parsed == parseInt(Get(listing, "bedrooms"))
           rooms == IF Truthy(parsed) THEN parsed ELSE Num(1)
       IN  Add(functionalPricePerRoomSum(SubSeq(listings, 1, k - 1)),
               Div(price, rooms))

\* the object the functional computeStatistics returns
functionalStatisticsOf(listings) ==
  LET totalListings == Len(listings)
      pricePerRoom ==
        Div(functionalPricePerRoomSum(listings), Num(totalListings))
  IN  [totalListings |-> totalListings,
       averagePricePerRoom |-> toFixed2(pricePerRoom)]

\* const listings = await loadData(filePath)
functionalLoadData ==
  /\ Running
  /\ lastCall' = "loadData"
  /\ criteria' = NoCriteria
  /\ IF file.status = "missing" THEN Settle(data, "ENOENT", "rejected")
     ELSE IF file.status = "corrupt" THEN Settle(data, "DecodeError", "rejected")
     ELSE Settle(CsvRecords(file), "none", "fulfilled")
  /\ UNCHANGED <<file, filteredData, statistics, hostRanking, exported,
                 priceCall>>

\* const filteredListings = filterListings(listings, c)
functionalFilterListings(c) ==
  /\ Running
  /\ lastCall' = "filterListings"
  /\ promise' = "none"
  /\ criteria' = c
  /\ IF PriceThrows(data)
       THEN filteredData' = filteredData /\ err' = "TypeError"
       ELSE filteredData' = functionalFilterResult(data, c) /\ err' = "none"
  /\ UNCHANGED <<file, data, statistics, hostRanking, exported, priceCall>>

\* const stats = computeStatistics(filteredListings)
functionalComputeStatistics ==
  /\ Running
  /\ lastCall' = "computeStatistics"
  /\ promise' = "none"
  /\ criteria' = NoCriteria
  /\ IF PriceThrows(filteredData)
       THEN statistics' = statistics /\ err' = "TypeError"
       ELSE statistics' = functionalStatisticsOf(filteredData) /\ err' = "none"
  /\ UNCHANGED <<file, data, filteredData, hostRanking, exported, priceCall>>

\* const hostRanking = computeHostRanking(filteredListings)
functionalComputeHostRanking ==
  /\ Running
  /\ lastCall' = "computeHostRanking"
  /\ promise' = "none"
  /\ criteria' = NoCriteria
  /\ hostRanking' = HostRankingOf(filteredData)
  /\ err' = "none"
  /\ UNCHANGED <<file, data, filteredData, statistics, exported, priceCall>>

NextFunctional ==
  \/ functionalLoadData
  \/ \E c \in PipelineCriteria : functionalFilterListings(c)
  \/ functionalComputeStatistics
  \/ functionalComputeHostRanking

SpecFunctional == InitClass /\ [][NextFunctional]_vars

\* C22: the functions filterListings(listings, criteria) and
\* computeStatistics(listings) of the functional module give what the
\* handler's filterListings and computeStatistics give, for every record
\* sequence and criteria: unparseable price, bedrooms or review score
\* texts, the bedrooms text "0" and fractional review scores included.
C22_FunctionalAsHandler ==
  /\ Returned("filterListings") => filteredData = FilterResult(data, criteria)
  /\ Returned("computeStatistics") => statistics = StatisticsOf(filteredData)

====
